---- MODULE Spec2Model ----
(***************************************************************************)
(* Model of src/scripts/calculate_withdrawal_times.py: main() samples a    *)
(* logarithmic range of amounts, calculate_weighted_durations() queries    *)
(* the withdrawal-time API once per amount and folds the answers into a    *)
(* cumulative amount-weighted duration, save_results() writes the rows.    *)
(*                                                                         *)
(* Numbers.  Amounts are IEEE doubles in the program; here an amount is a  *)
(* fixed-point integer counting 1/Scale ETH, or NaN.  Durations, the       *)
(* weighted sum and the weighted duration are exact rationals [n, d] in    *)
(* lowest terms with d > 0; the record with d = 0 stands for Python None.  *)
(* Wall-clock time is counted in half seconds.                             *)
(***************************************************************************)
EXTENDS Integers, Sequences, FiniteSets, TLC

\* ------------------------------------------------------------------ bounds
\* resolution of an amount: units per ETH
Scale == 10
\* largest --num-points tried (the smallest is -1)
MaxPoints == 3

\* --------------------------------------------------------- program constants
\* 1000 * 60 * 60 * 24, the divisor of finalizationIn
MsPerDay == 86400000
\* timeout=10 of session.get, in half seconds
TimeoutTicks == 20
\* time.sleep(0.5), in half seconds
SleepTicks == 1

\* the time at which the run starts, in half seconds
StartTicks == 2 * TimeoutTicks + 1

\* ------------------------------------------------------------------ numbers
Abs(x) == IF x < 0 THEN 0 - x ELSE x

RECURSIVE GCD(_, _)
GCD(a, b) == IF b = 0 THEN Abs(a) ELSE GCD(b, a % b)

\* the rational n/d (d # 0) in lowest terms with a positive denominator
Rat(n, d) ==
  LET g == GCD(Abs(n), Abs(d))
      s == IF d < 0 THEN 0 - 1 ELSE 1
  IN [n |-> (s * n) \div g, d |-> (s * d) \div g]

None == [n |-> 0, d |-> 0]
IsNone(x) == x.d = 0

RatAdd(x, y) == Rat(x.n * y.d + y.n * x.d, x.d * y.d)
\* an amount (integer number of units) times a rational
RatScale(k, x) == Rat(k * x.n, x.d)
\* a rational divided by an amount
RatOver(x, k) == Rat(x.n, x.d * k)

RECURSIVE Pow(_, _)
Pow(b, k) == IF k = 0 THEN 1 ELSE b * Pow(b, k - 1)

\* the largest v in lo..hi with v^k <= x (given lo^k <= x)
RECURSIVE IRoot(_, _, _, _)
IRoot(x, k, lo, hi) ==
  IF lo >= hi THEN lo
  ELSE LET mid == (lo + hi + 1) \div 2
       IN IF Pow(mid, k) <= x THEN IRoot(x, k, mid, hi)
                              ELSE IRoot(x, k, lo, mid - 1)

\* a float amount: a finite value of v units, or NaN
Float(v) == [nan |-> FALSE, v |-> v]
NaN == [nan |-> TRUE, v |-> 0]

\* int(amount) of a finite non-negative amount: truncation to whole ETH
IntOf(a) == a.v \div Scale

\* ------------------------------------------------------------------- inputs
\* --min-amount / --max-amount (type=float), in units
MinAmounts == {0 - Scale, 0, 8 * Scale, 10 * Scale, 100 * Scale}
MaxAmounts == {10 * Scale, 100 * Scale}
NumPoints == (0 - 1) .. MaxPoints

\* what one GET of the API can come to, after the adapter's retries
Responses ==
  { [kind |-> k, ms |-> 0] :
      k \in {"RequestException", "InvalidJSON", "NoRequestInfo",
             "NullRequestInfo", "NoFinalizationIn", "TextFinalizationIn"} }
  \cup { [kind |-> "Ms", ms |-> m] : m \in {0, 2 * MsPerDay, 5 * MsPerDay} }

\* time one call of fetch_withdrawal_time can take, in half seconds
Elapsed == {0, TimeoutTicks}

\* 10 ** log10(x) gives x back exactly when x is a power of ten (log10 is
\* then a whole number); for another x the double that comes back may be a
\* neighbour of x (10.0 ** math.log10(8) is 7.999999999999999).  The
\* rounding of an end of the range, in units:
RoundTrip(x) == IF x \in {10 * Scale, 100 * Scale} THEN {0} ELSE {0 - 1, 0, 1}

\* -------------------------------------------------------------------- state
VARIABLES
  pc,                   \* position of the run
  min_amount,           \* args.min_amount
  max_amount,           \* args.max_amount
  num_points,           \* args.num_points
  amounts,              \* the ndarray handed to the fold
  clock,                \* time.time(), in half seconds
  timestamp,            \* local of calculate_weighted_durations
  results,              \* local list of rows
  cumulative_amount,    \* local accumulator
  weighted_sum,         \* local accumulator
  idx,                  \* position of the for loop, 1-based
  finalization_in_days, \* first component of the last fetch result
  error,                \* second component of the last fetch result
  queries,              \* history: amounts sent to the API, in order
  responses,            \* history: what the API answered, in order
  exception,            \* the exception that ended the run, if any
  raised_in,            \* the function whose code raised it
  csv                   \* rows written by save_results

vars == <<pc, min_amount, max_amount, num_points, amounts, clock, timestamp,
          results, cumulative_amount, weighted_sum, idx,
          finalization_in_days, error, queries, responses, exception,
          raised_in, csv>>

args == <<min_amount, max_amount, num_points>>
locals == <<timestamp, results, cumulative_amount, weighted_sum, idx,
            finalization_in_days, error>>

\* ------------------------------------------------------------- the sampler
\* int(time.time())
Now(c) == c \div 2

\* LogValue with the stop value left out of the range (endpoint=False)
LogValueNoEndpoint(lo, hi, n, i) ==
  IF n = 1 THEN lo
  ELSE IRoot(Pow(lo, n - i) * Pow(hi, i), n,
             IF lo < hi THEN lo ELSE hi, IF lo < hi THEN hi ELSE lo)

\* The i-th (0-based) value of np.logspace(log10(lo), log10(hi), num=n),
\* 10 ** (log10(lo) + i * (log10(hi) - log10(lo)) / (n - 1)), for lo, hi > 0:
\* the (n-1)-th root of lo^(n-1-i) * hi^i, cut to the resolution.
LogValue(lo, hi, n, i) ==
  IF n = 1 THEN lo
  ELSE IRoot(Pow(lo, n - 1 - i) * Pow(hi, i), n - 1,
             IF lo < hi THEN lo ELSE hi, IF lo < hi THEN hi ELSE lo)

\* np.logspace(np.log10(lo), np.log10(hi), num=n, base=10) for n >= 0 and
\* hi > 0.  log10 of a non-positive lo is -inf or nan, which turns every
\* element but the last (set to the stop value when n > 1) into nan.
\* rlo and rhi are the roundings at the first and at the last element.
Logspace(lo, hi, n, rlo, rhi) ==
  [i \in 1..n |->
     IF lo <= 0
       THEN IF i = n /\ n > 1 THEN Float(hi + rhi) ELSE NaN
       ELSE Float(LogValue(lo, hi, n, i - 1)
                  + (IF i = 1 THEN rlo ELSE 0)
                  + (IF i = n /\ n > 1 THEN rhi ELSE 0))]

\* --------------------------------------------------------------- the oracle
\* fetch_withdrawal_time: the pair it returns, or the exception it lets out.
\* RequestException: no answer, or an error status after the retries.
\* InvalidJSON: response.json() raises requests' JSONDecodeError, which is
\* a RequestException (and a ValueError): the first handler takes it.
\* NoRequestInfo: response_data['requestInfo'] raises KeyError.
\* NoFinalizationIn: .get('finalizationIn', None) is None, no error.
\* NullRequestInfo: requestInfo is null, .get raises AttributeError, which
\* no handler catches.  TextFinalizationIn: finalizationIn is not a number,
\* the division raises TypeError, which no handler catches.
FetchWithdrawalTime(resp) ==
  CASE resp.kind = "Ms" ->
         [days |-> Rat(resp.ms, MsPerDay), error |-> "None", raises |-> "None"]
    [] resp.kind = "NoFinalizationIn" ->
         [days |-> None, error |-> "None", raises |-> "None"]
    [] resp.kind = "RequestException" ->
         [days |-> None, error |-> "Request error", raises |-> "None"]
    [] resp.kind = "InvalidJSON" ->
         [days |-> None, error |-> "Request error", raises |-> "None"]
    [] resp.kind = "NoRequestInfo" ->
         [days |-> None, error |-> "Data parsing error", raises |-> "None"]
    [] resp.kind = "NullRequestInfo" ->
         [days |-> None, error |-> "None", raises |-> "AttributeError"]
    [] resp.kind = "TextFinalizationIn" ->
         [days |-> None, error |-> "None", raises |-> "TypeError"]

\* ------------------------------------- state of the two Dune scripts
\* src/scripts/create_dune_tables.py (t_) and src/scripts/upload_to_dune.py
\* (u_) are programs of their own; each has its own specification below,
\* and stays "off" in the specifications of the other programs.
VARIABLES
  t_pc,        \* position of create_dune_tables.py
  t_type,      \* args.type
  t_action,    \* args.action
  t_key,       \* DUNE_API_KEY is set and not empty
  t_table,     \* the table main is at: "withdrawal", "oracle", then "done"
  t_retry,     \* parameter retry of the running create_*_table call
  t_requests,  \* history: requests sent since the top-level create_*_table
               \* call began, each with what the remote answered
  t_returned,  \* what the top-level create_*_table call of a table returned
  t_name,      \* suffixes appended to config.*_TABLE, per table
  t_success,   \* main's success
  t_exit       \* the exit code of the script

tables == <<t_pc, t_type, t_action, t_key, t_table, t_retry, t_requests,
            t_returned, t_name, t_success, t_exit>>

VARIABLES
  u_pc,        \* position of upload_to_dune.py
  u_type,      \* args.type
  u_dry_run,   \* args.dry_run
  u_key,       \* DUNE_API_KEY is set and not empty
  u_files,     \* which of the two CSV files exist
  u_table,     \* the upload main is at: "oracle", "withdrawal", then "done"
  u_inserts,   \* history: dune.insert_table calls, each with its outcome
  u_returns,   \* history: what upload_oracle_report / upload_withdrawal_times
               \* returned
  u_temp,      \* temp_<table>.csv files on disk
  u_success,   \* main's success
  u_exit       \* the exit code of the script

uploads == <<u_pc, u_type, u_dry_run, u_key, u_files, u_table, u_inserts,
             u_returns, u_temp, u_success, u_exit>>

TableKinds == {"withdrawal", "oracle"}

\* create_dune_tables.py is not running
TablesOff ==
  /\ t_pc = "off"
  /\ t_type = "both"
  /\ t_action = "create"
  /\ t_key = TRUE
  /\ t_table = "withdrawal"
  /\ t_retry = TRUE
  /\ t_requests = <<>>
  /\ t_returned = [k \in TableKinds |-> "none"]
  /\ t_name = [k \in TableKinds |-> 0]
  /\ t_success = TRUE
  /\ t_exit = "none"

\* upload_to_dune.py is not running
UploadsOff ==
  /\ u_pc = "off"
  /\ u_type = "both"
  /\ u_dry_run = FALSE
  /\ u_key = TRUE
  /\ u_files = {}
  /\ u_table = "oracle"
  /\ u_inserts = <<>>
  /\ u_returns = <<>>
  /\ u_temp = {}
  /\ u_success = TRUE
  /\ u_exit = "none"

\* ------------------------------------------------------------------ actions
Init ==
  /\ TablesOff
  /\ UploadsOff
  /\ pc = "main"
  /\ min_amount \in MinAmounts
  /\ max_amount \in MaxAmounts
  /\ num_points \in NumPoints
  /\ amounts = <<>>
  /\ clock = StartTicks
  /\ timestamp = 0
  /\ results = <<>>
  /\ cumulative_amount = 0
  /\ weighted_sum = Rat(0, 1)
  /\ idx = 0
  /\ finalization_in_days = None
  /\ error = "None"
  /\ queries = <<>>
  /\ responses = <<>>
  /\ exception = "None"
  /\ raised_in = "None"
  /\ csv = <<>>

\* main, lines 112-117: np.logspace; a negative num raises ValueError
Sample ==
  /\ pc = "main"
  /\ IF num_points < 0
       THEN /\ pc' = "raised"
            /\ exception' = "ValueError"
            /\ raised_in' = "logspace"
            /\ UNCHANGED amounts
       ELSE /\ \E rlo \in RoundTrip(min_amount), rhi \in RoundTrip(max_amount) :
                 amounts' = Logspace(min_amount, max_amount, num_points,
                                     rlo, rhi)
            /\ pc' = "fold"
            /\ UNCHANGED <<exception, raised_in>>
  /\ UNCHANGED <<tables, uploads>>
  /\ UNCHANGED <<args, clock, locals, queries, responses, csv>>

\* calculate_weighted_durations, lines 59-66
FoldStart ==
  /\ pc = "fold"
  /\ timestamp' = Now(clock)
  /\ results' = <<>>
  /\ cumulative_amount' = 0
  /\ weighted_sum' = Rat(0, 1)
  /\ idx' = 1
  /\ pc' = "loop"
  /\ UNCHANGED <<tables, uploads>>
  /\ UNCHANGED <<args, amounts, clock, finalization_in_days, error, queries,
                 responses, exception, raised_in, csv>>

\* lines 68-69: int(amount) raises ValueError on nan before the call;
\* otherwise one GET, which takes its time, and the result of the fetch
Fetch ==
  /\ pc = "loop"
  /\ idx <= Len(amounts)
  /\ IF amounts[idx].nan
       THEN /\ pc' = "raised"
            /\ exception' = "ValueError"
            /\ raised_in' = "calculate_weighted_durations"
            /\ UNCHANGED <<clock, finalization_in_days, error, queries,
                           responses>>
       ELSE \E resp \in Responses, dt \in Elapsed :
              LET r == FetchWithdrawalTime(resp) IN
              /\ queries' = Append(queries, IntOf(amounts[idx]))
              /\ responses' = Append(responses, resp)
              /\ clock' = clock + dt
              /\ IF r.raises = "None"
                   THEN /\ finalization_in_days' = r.days
                        /\ error' = r.error
                        /\ pc' = "update"
                        /\ UNCHANGED <<exception, raised_in>>
                   ELSE /\ pc' = "raised"
                        /\ exception' = r.raises
                        /\ raised_in' = "fetch_withdrawal_time"
                        /\ UNCHANGED <<finalization_in_days, error>>
  /\ UNCHANGED <<tables, uploads>>
  /\ UNCHANGED <<args, amounts, timestamp, results, cumulative_amount,
                 weighted_sum, idx, csv>>

\* AccumulatorStep taking the increment from zero, not from the previous
\* cumulative amount
StepFromZero(amount, cumulative, weighted, days) ==
  LET incremental_amount == amount
      cum == cumulative + incremental_amount
      ws == IF IsNone(days) THEN weighted
            ELSE RatAdd(weighted, RatScale(incremental_amount, days))
  IN [cumulative_amount |-> cum,
      weighted_sum |-> ws,
      weighted_duration |-> IF IsNone(days) THEN None ELSE RatOver(ws, cum)]

\* AccumulatorStep with weighted_sum assigned, not added to
StepOverwrite(amount, cumulative, weighted, days) ==
  LET incremental_amount == amount - cumulative
      cum == cumulative + incremental_amount
      ws == IF IsNone(days) THEN weighted
            ELSE RatScale(incremental_amount, days)
  IN [cumulative_amount |-> cum,
      weighted_sum |-> ws,
      weighted_duration |-> IF IsNone(days) THEN None ELSE RatOver(ws, cum)]

\* AccumulatorStep advancing cumulative_amount only for a defined duration
StepSkipAbsent(amount, cumulative, weighted, days) ==
  LET incremental_amount == amount - cumulative
      cum == IF IsNone(days) THEN cumulative
             ELSE cumulative + incremental_amount
      ws == IF IsNone(days) THEN weighted
            ELSE RatAdd(weighted, RatScale(incremental_amount, days))
  IN [cumulative_amount |-> cum,
      weighted_sum |-> ws,
      weighted_duration |-> IF IsNone(days) THEN None ELSE RatOver(ws, cum)]

\* lines 72-80: one step of the accumulator for a sample of `amount` units
\* whose fetched duration is `days` (None when absent)
AccumulatorStep(amount, cumulative, weighted, days) ==
  LET incremental_amount == amount - cumulative
      cum == cumulative + incremental_amount
      ws == IF IsNone(days) THEN weighted
            ELSE RatAdd(weighted, RatScale(incremental_amount, days))
  IN [cumulative_amount |-> cum,
      weighted_sum |-> ws,
      weighted_duration |-> IF IsNone(days) THEN None ELSE RatOver(ws, cum)]

\* Row with the amount rounded to the nearest whole number
RowRounded(ts, amount, days, weighted_duration) ==
  [timestamp |-> ts, amount |-> (amount.v + Scale \div 2) \div Scale,
   finalization_in_days |-> days, weighted_duration |-> weighted_duration]

\* Row stamped with the time at which it is appended
RowStampedNow(ts, amount, days, weighted_duration) ==
  [timestamp |-> Now(clock), amount |-> IntOf(amount),
   finalization_in_days |-> days, weighted_duration |-> weighted_duration]

\* Row leaving out the weighted duration of a sample without a duration
RowPartial(ts, amount, days, weighted_duration) ==
  IF IsNone(days)
    THEN [timestamp |-> ts, amount |-> IntOf(amount)]
    ELSE [timestamp |-> ts, amount |-> IntOf(amount),
          finalization_in_days |-> days,
          weighted_duration |-> weighted_duration]

\* line 83: the row appended for a sample
Row(ts, amount, days, weighted_duration) ==
  [timestamp |-> ts, amount |-> IntOf(amount),
   finalization_in_days |-> days, weighted_duration |-> weighted_duration]

\* Update asking again for a sample whose duration is absent: no row, and
\* the loop stays on the sample
UpdateRetriesAbsent ==
  /\ pc = "update"
  /\ LET amount == amounts[idx]
         step == AccumulatorStep(amount.v, cumulative_amount, weighted_sum,
                                 finalization_in_days)
     IN IF IsNone(finalization_in_days)
          THEN UNCHANGED <<cumulative_amount, weighted_sum, results, idx>>
          ELSE /\ cumulative_amount' = step.cumulative_amount
               /\ weighted_sum' = step.weighted_sum
               /\ results' = Append(results, Row(timestamp, amount,
                                                 finalization_in_days,
                                                 step.weighted_duration))
               /\ idx' = idx + 1
  /\ clock' = clock + SleepTicks
  /\ pc' = "loop"
  /\ UNCHANGED <<tables, uploads>>
  /\ UNCHANGED <<args, amounts, timestamp, finalization_in_days, error,
                 queries, responses, exception, raised_in, csv>>

\* lines 72-86: the accumulator step, the row, the sleep
Update ==
  /\ pc = "update"
  /\ LET amount == amounts[idx]
         step == AccumulatorStep(amount.v, cumulative_amount, weighted_sum,
                                 finalization_in_days)
     IN /\ cumulative_amount' = step.cumulative_amount
        /\ weighted_sum' = step.weighted_sum
        /\ results' = Append(results, Row(timestamp, amount,
                                          finalization_in_days,
                                          step.weighted_duration))
  /\ clock' = clock + SleepTicks
  /\ idx' = idx + 1
  /\ pc' = "loop"
  /\ UNCHANGED <<tables, uploads>>
  /\ UNCHANGED <<args, amounts, timestamp, finalization_in_days, error,
                 queries, responses, exception, raised_in, csv>>

\* Return refusing an empty result
ReturnRejectsEmpty ==
  /\ pc = "loop"
  /\ idx > Len(amounts)
  /\ IF results = <<>>
       THEN /\ pc' = "raised"
            /\ exception' = "EmptyInputError"
            /\ raised_in' = "calculate_weighted_durations"
       ELSE /\ pc' = "returned"
            /\ UNCHANGED <<exception, raised_in>>
  /\ UNCHANGED <<tables, uploads>>
  /\ UNCHANGED <<args, amounts, clock, locals, queries, responses, csv>>

\* line 88
Return ==
  /\ pc = "loop"
  /\ idx > Len(amounts)
  /\ pc' = "returned"
  /\ UNCHANGED <<tables, uploads>>
  /\ UNCHANGED <<args, amounts, clock, locals, queries, responses, exception,
                 raised_in, csv>>

\* main, line 124: save_results writes every row
Save ==
  /\ pc = "returned"
  /\ csv' = results
  /\ pc' = "done"
  /\ UNCHANGED <<tables, uploads>>
  /\ UNCHANGED <<args, amounts, clock, locals, queries, responses, exception,
                 raised_in>>

Next == Sample \/ FoldStart \/ Fetch \/ Update \/ Return \/ Save

Spec == Init /\ [][Next]_vars

\* calculate_withdrawal_times.py is not running
FoldOff ==
  /\ pc = "off"
  /\ min_amount = 10 * Scale
  /\ max_amount = 100 * Scale
  /\ num_points = 0
  /\ amounts = <<>>
  /\ clock = StartTicks
  /\ timestamp = 0
  /\ results = <<>>
  /\ cumulative_amount = 0
  /\ weighted_sum = Rat(0, 1)
  /\ idx = 0
  /\ finalization_in_days = None
  /\ error = "None"
  /\ queries = <<>>
  /\ responses = <<>>
  /\ exception = "None"
  /\ raised_in = "None"
  /\ csv = <<>>

\* ------------------------------------ src/scripts/create_dune_tables.py
\* --type and --action
Types == {"oracle", "withdrawal", "both"}
TableActions == {"create", "delete", "recreate"}

\* what dune.create_table can come to: a result, or an exception whose
\* message holds "This table already exists", or holds "Table created
\* successfully" and "KeyError", or holds neither
CreateOutcomes == {"ok", "exists", "created_keyerror", "error"}

\* what dune.delete_table can come to: a result, or an exception whose
\* message holds "table does not exist" or "not found", or holds neither
DeleteOutcomes == {"ok", "not_found", "error"}

\* main, lines 242 and 253: args.type in [kind, 'both']
Selected(type, kind) == type \in {kind, "both"}

\* the order of main: withdrawal (line 242), oracle (line 253), return
NextTable(kind) == IF kind = "withdrawal" THEN "oracle" ELSE "done"

\* delete_withdrawal_times_table / delete_oracle_report_table: the value
\* returned for an outcome of dune.delete_table
DeleteResult(outcome) == outcome \in {"ok", "not_found"}

\* ShouldRetry without the test of retry
ShouldRetryAlways(outcome, retry) == outcome = "exists"

\* lines 122 and 183: "This table already exists" in str(e) and retry
ShouldRetry(outcome, retry) == outcome = "exists" /\ retry

\* the inner try of create_withdrawal_times_table (lines 107-138) and of
\* create_oracle_report_table (lines 172-199) for one outcome of
\* dune.create_table: return True, go on to the forced recreation, or raise.
\* Only the withdrawal function takes "created_keyerror" for a success.
InnerTry(kind, outcome, retry) ==
  CASE outcome = "ok" -> "True"
    [] outcome = "created_keyerror" /\ kind = "withdrawal" -> "True"
    [] ShouldRetry(outcome, retry) -> "retry"
    [] OTHER -> "raise"

\* the outer try (lines 139-141, 200-202): an exception becomes False
OuterTry(r) == IF r = "raise" THEN "False" ELSE r

\* the number of requests of kind op in a history
RECURSIVE CountOp(_, _)
CountOp(h, op) ==
  IF h = <<>> THEN 0
  ELSE (IF h[1].op = op THEN 1 ELSE 0) + CountOp(Tail(h), op)

InitCreate ==
  /\ FoldOff
  /\ UploadsOff
  /\ t_pc = "main"
  /\ t_type \in Types
  /\ t_action \in TableActions
  /\ t_key \in BOOLEAN
  /\ t_table = "withdrawal"
  /\ t_retry = TRUE
  /\ t_requests = <<>>
  /\ t_returned = [k \in TableKinds |-> "none"]
  /\ t_name = [k \in TableKinds |-> 0]
  /\ t_success = TRUE
  /\ t_exit = "none"

\* main, lines 222-237: without the key the script returns 1 at once
TablesMain ==
  /\ t_pc = "main"
  /\ IF t_key
       THEN /\ t_pc' = "begin"
            /\ UNCHANGED t_exit
       ELSE /\ t_pc' = "exit"
            /\ t_exit' = 1
  /\ UNCHANGED <<t_type, t_action, t_key, t_table, t_retry, t_requests,
                 t_returned, t_name, t_success>>
  /\ UNCHANGED <<vars, uploads>>

\* main, lines 242-262: the function called for the table main is at; a
\* call of create_*_table starts with retry=True
TablesBegin ==
  /\ t_pc = "begin"
  /\ t_table \in TableKinds
  /\ IF Selected(t_type, t_table)
       THEN /\ t_pc' = CASE t_action = "create" -> "create"
                         [] t_action = "delete" -> "delete"
                         [] t_action = "recreate" -> "recreate_delete"
            /\ t_retry' = TRUE
            /\ t_requests' = <<>>
            /\ UNCHANGED t_table
       ELSE /\ t_table' = NextTable(t_table)
            /\ UNCHANGED <<t_pc, t_retry, t_requests>>
  /\ UNCHANGED <<t_type, t_action, t_key, t_returned, t_name, t_success,
                 t_exit>>
  /\ UNCHANGED <<vars, uploads>>

\* delete_*_table called by main (lines 247, 258)
TablesDelete ==
  /\ t_pc = "delete"
  /\ \E outcome \in DeleteOutcomes :
       /\ t_success' = (t_success /\ DeleteResult(outcome))
  /\ t_table' = NextTable(t_table)
  /\ t_pc' = "begin"
  /\ UNCHANGED <<t_type, t_action, t_key, t_retry, t_requests, t_returned,
                 t_name, t_exit>>
  /\ UNCHANGED <<vars, uploads>>

\* recreate_*_table (lines 204-220): delete, and create only after a
\* delete that returned True
TablesRecreateDelete ==
  /\ t_pc = "recreate_delete"
  /\ \E outcome \in DeleteOutcomes :
       IF DeleteResult(outcome)
         THEN /\ t_pc' = "create"
              /\ UNCHANGED <<t_table, t_success>>
         ELSE /\ t_pc' = "begin"
              /\ t_table' = NextTable(t_table)
              /\ t_success' = FALSE
  /\ UNCHANGED <<t_type, t_action, t_key, t_retry, t_requests, t_returned,
                 t_name, t_exit>>
  /\ UNCHANGED <<vars, uploads>>

\* create_*_table up to its return or to the forced recreation: one
\* dune.create_table request.  The value returned passes through the
\* recursive call (lines 136, 197) to the caller of the top-level call.
\* An exception that left the function would end the script.
TablesCreate ==
  /\ t_pc = "create"
  /\ \E outcome \in CreateOutcomes :
       LET r == OuterTry(InnerTry(t_table, outcome, t_retry)) IN
       /\ t_requests' = Append(t_requests,
                               [op |-> "create", table |-> t_table,
                                outcome |-> outcome])
       /\ CASE r = "retry" ->
                 /\ t_pc' = "forced_delete"
                 /\ UNCHANGED <<t_table, t_returned, t_success, t_exit>>
            [] r = "raise" ->
                 /\ t_pc' = "raised"
                 /\ t_exit' = 1
                 /\ UNCHANGED <<t_table, t_returned, t_success>>
            [] OTHER ->
                 /\ t_pc' = "begin"
                 /\ t_returned' = [t_returned EXCEPT ![t_table] = r]
                 /\ t_success' = (t_success /\ r = "True")
                 /\ t_table' = NextTable(t_table)
                 /\ UNCHANGED t_exit
  /\ UNCHANGED <<t_type, t_action, t_key, t_retry, t_name>>
  /\ UNCHANGED <<vars, uploads>>

\* lines 123-136, 184-197: the forced delete, whose result is dropped, the
\* wait, the new name in config, and the call with retry=False
TablesForcedDelete ==
  /\ t_pc = "forced_delete"
  /\ \E outcome \in DeleteOutcomes :
       t_requests' = Append(t_requests,
                            [op |-> "delete", table |-> t_table,
                             outcome |-> outcome])
  /\ t_name' = [t_name EXCEPT ![t_table] = @ + 1]
  /\ t_retry' = FALSE
  /\ t_pc' = "create"
  /\ UNCHANGED <<t_type, t_action, t_key, t_table, t_returned, t_success,
                 t_exit>>
  /\ UNCHANGED <<vars, uploads>>

\* main, line 264
TablesExit ==
  /\ t_pc = "begin"
  /\ t_table = "done"
  /\ t_pc' = "exit"
  /\ t_exit' = (IF t_success THEN 0 ELSE 1)
  /\ UNCHANGED <<t_type, t_action, t_key, t_table, t_retry, t_requests,
                 t_returned, t_name, t_success>>
  /\ UNCHANGED <<vars, uploads>>

NextCreate ==
  \/ TablesMain \/ TablesBegin \/ TablesDelete \/ TablesRecreateDelete
  \/ TablesCreate \/ TablesForcedDelete \/ TablesExit

\* The script is one sequential process: a step that can be taken is
\* taken, every request to the remote ending with a result or an exception.
SpecCreate ==
  InitCreate /\ [][NextCreate]_tables /\ WF_tables(NextCreate)

\* --------------------------------------- src/scripts/upload_to_dune.py
\* what pd.read_csv and clean_*_data can come to: a frame, or an exception
ReadOutcomes == {"ok", "error"}

\* what upload_to_dune can meet: DuneClient.from_env raising (line 131),
\* df.to_csv raising (line 136), dune.insert_table raising (line 145), or
\* the insert going through
UploadOutcomes == {"client_error", "to_csv_error", "insert_error", "ok"}

\* the outcomes in which dune.insert_table was called
Inserted == {"insert_error", "ok"}

\* the order of main: oracle (line 239), withdrawal (line 246), return
NextUpload(kind) == IF kind = "oracle" THEN "withdrawal" ELSE "done"

\* upload_to_dune (lines 128-161): only the insert is inside the try, so
\* its failure is returned as False and any earlier failure is raised
UploadToDune(outcome) ==
  CASE outcome = "ok" -> "True"
    [] outcome = "insert_error" -> "False"
    [] OTHER -> "raise"

\* upload_oracle_report / upload_withdrawal_times after the frame is read
\* (lines 175-186, 200-211): the value of upload_to_dune is bound to result
\* and not read; True is returned unless an exception came out of it
UploadReturn(result) == result # "raise"

InitUpload ==
  /\ FoldOff
  /\ TablesOff
  /\ u_pc = "main"
  /\ u_type \in Types
  /\ u_dry_run \in BOOLEAN
  /\ u_key \in BOOLEAN
  /\ u_files \in SUBSET TableKinds
  /\ u_table = "oracle"
  /\ u_inserts = <<>>
  /\ u_returns = <<>>
  /\ u_temp = {}
  /\ u_success = TRUE
  /\ u_exit = "none"

\* main, lines 213-236: the key, then the dry run
UploadMain ==
  /\ u_pc = "main"
  /\ CASE ~u_key -> u_pc' = "exit" /\ u_exit' = 1
       [] u_key /\ u_dry_run -> u_pc' = "exit" /\ u_exit' = 0
       [] OTHER -> u_pc' = "begin" /\ UNCHANGED u_exit
  /\ UNCHANGED <<u_type, u_dry_run, u_key, u_files, u_table, u_inserts,
                 u_returns, u_temp, u_success>>
  /\ UNCHANGED <<vars, tables>>

\* main, lines 239-251: a kind that is selected and whose file exists is
\* uploaded, any other is passed over
UploadBegin ==
  /\ u_pc = "begin"
  /\ u_table \in TableKinds
  /\ IF Selected(u_type, u_table) /\ u_table \in u_files
       THEN /\ u_pc' = "read"
            /\ UNCHANGED u_table
       ELSE /\ u_table' = NextUpload(u_table)
            /\ UNCHANGED u_pc
  /\ UNCHANGED <<u_type, u_dry_run, u_key, u_files, u_inserts, u_returns,
                 u_temp, u_success, u_exit>>
  /\ UNCHANGED <<vars, tables>>

\* upload_*: pd.read_csv and clean_*_data (lines 169-172, 194-197); an
\* exception is caught at line 184 / 209 and the function returns False
UploadRead ==
  /\ u_pc = "read"
  /\ \E outcome \in ReadOutcomes :
       IF outcome = "ok"
         THEN /\ u_pc' = "upload"
              /\ UNCHANGED <<u_table, u_returns, u_success>>
         ELSE /\ u_pc' = "begin"
              /\ u_returns' = Append(u_returns,
                                     [table |-> u_table, value |-> FALSE])
              /\ u_success' = FALSE
              /\ u_table' = NextUpload(u_table)
  /\ UNCHANGED <<u_type, u_dry_run, u_key, u_files, u_inserts, u_temp,
                 u_exit>>
  /\ UNCHANGED <<vars, tables>>

\* upload_*: the call of upload_to_dune and the return (lines 175-186,
\* 200-211), then main's test of the value (lines 241-242, 248-249).  The
\* temporary file is written by to_csv and removed only after an insert
\* that went through.
UploadInsert ==
  /\ u_pc = "upload"
  /\ \E outcome \in UploadOutcomes :
       LET value == UploadReturn(UploadToDune(outcome)) IN
       /\ u_inserts' = IF outcome \in Inserted
                         THEN Append(u_inserts,
                                     [table |-> u_table, outcome |-> outcome])
                         ELSE u_inserts
       /\ u_temp' = IF outcome = "insert_error"
                      THEN u_temp \cup {u_table}
                      ELSE u_temp
       /\ u_returns' = Append(u_returns, [table |-> u_table, value |-> value])
       /\ u_success' = (u_success /\ value)
  /\ u_table' = NextUpload(u_table)
  /\ u_pc' = "begin"
  /\ UNCHANGED <<u_type, u_dry_run, u_key, u_files, u_exit>>
  /\ UNCHANGED <<vars, tables>>

\* main, line 253
UploadExit ==
  /\ u_pc = "begin"
  /\ u_table = "done"
  /\ u_pc' = "exit"
  /\ u_exit' = (IF u_success THEN 0 ELSE 1)
  /\ UNCHANGED <<u_type, u_dry_run, u_key, u_files, u_table, u_inserts,
                 u_returns, u_temp, u_success>>
  /\ UNCHANGED <<vars, tables>>

NextUploadStep ==
  UploadMain \/ UploadBegin \/ UploadRead \/ UploadInsert \/ UploadExit

SpecUpload == InitUpload /\ [][NextUploadStep]_uploads

\* ------------------------------------------------------- shared predicates
\* the fold has returned its rows to main
Returned == pc \in {"returned", "done"}

\* np.logspace has returned the samples
Sampled == pc # "main" /\ raised_in # "logspace"

\* the amount of the sample before the j-th, 0 before the first
PrevAmount(j) == IF j = 1 THEN 0 ELSE amounts[j - 1].v

\* the sum over the rows j <= i with a defined duration of
\* (amount_j - amount_{j-1}) * duration_j
RECURSIVE WeightedSumTo(_)
WeightedSumTo(i) ==
  IF i = 0 THEN Rat(0, 1)
  ELSE LET d == results[i].finalization_in_days
       IN IF IsNone(d) THEN WeightedSumTo(i - 1)
          ELSE RatAdd(WeightedSumTo(i - 1),
                      RatScale(amounts[i].v - PrevAmount(i), d))

\* the samples are exactly 10 and 100
SamplesTenHundred == amounts = <<Float(10 * Scale), Float(100 * Scale)>>

\* the amount of a row (whole ETH) is the sample a (units) cut to a whole
TruncationOf(whole, a) == whole * Scale <= a.v /\ a.v < (whole + 1) * Scale

\* ---------------------------------------------------------------------- C1
\* C1: for every row i whose duration is defined, weighted_duration equals
\* weighted_sum_i / amount_i, weighted_sum_i being the sum over the samples
\* j <= i with a defined duration of (amount_j - amount_{j-1}) * duration_j;
\* samples [10, 100] with durations 2.0 and 5.0 give 2.0 and 4.7.
C1_WeightedDurationFormula ==
  /\ \A i \in 1..Len(results) :
       ~IsNone(results[i].finalization_in_days) =>
         results[i].weighted_duration
           = RatOver(WeightedSumTo(i), amounts[i].v)
  /\ ( /\ SamplesTenHundred
       /\ Len(results) = 2
       /\ results[1].finalization_in_days = Rat(2, 1)
       /\ results[2].finalization_in_days = Rat(5, 1) )
     => /\ results[1].weighted_duration = Rat(2, 1)
        /\ results[2].weighted_duration = Rat(47, 10)

C1_Witness ==
  /\ pc = "done"
  /\ SamplesTenHundred
  /\ Len(csv) = 2
  /\ csv[1].finalization_in_days = Rat(2, 1)
  /\ csv[2].finalization_in_days = Rat(5, 1)
  /\ csv[2].weighted_duration = Rat(47, 10)

C3_OracleFailureNeverAborts ==
  /\ raised_in # "fetch_withdrawal_time"
  /\ Returned => Len(results) = Len(amounts)
  /\ \A i \in 1..Len(results) :
       IF responses[i].kind = "Ms"
         THEN results[i].finalization_in_days
                = Rat(responses[i].ms, MsPerDay)
         ELSE /\ IsNone(results[i].finalization_in_days)
              /\ IsNone(results[i].weighted_duration)

\* ---------------------------------------------------------------------- C4
InvalidRange == min_amount <= 0 \/ max_amount <= min_amount \/ num_points < 1

\* C4: a run with min_amount <= 0 or max_amount <= min_amount or count < 1
\* fails, and fails before any oracle query: it never queries the oracle and
\* never returns rows.
C4_InvalidRangeFailsBeforeAnyQuery ==
  InvalidRange => (queries = <<>> /\ ~Returned)

\* ---------------------------------------------------------------------- C5
\* every query so far succeeded, all with one duration
ConstantDuration ==
  /\ responses # <<>>
  /\ \A i \in 1..Len(responses) :
       responses[i].kind = "Ms" /\ responses[i].ms = responses[1].ms

\* the samples are positive and strictly increasing
IncreasingPositive ==
  \A i \in 1..Len(amounts) :
    /\ ~amounts[i].nan
    /\ amounts[i].v > PrevAmount(i)

C6_CumulativeAmountMonotonic ==
  /\ [](pc = "loop" /\ idx = 1 => cumulative_amount = 0)
  /\ [][ /\ cumulative_amount' >= cumulative_amount
         /\ (pc = "update" /\ amounts[idx].v # PrevAmount(idx))
              => cumulative_amount' > cumulative_amount ]_vars

\* ---------------------------------------------------------------------- C7
\* C7: an empty sample sequence gives an empty row sequence, raises nothing
\* and queries nothing.
C7_EmptyInEmptyOut ==
  (Sampled /\ amounts = <<>>) =>
    /\ pc # "raised"
    /\ exception = "None"
    /\ results = <<>>
    /\ queries = <<>>
    /\ csv = <<>>

C7_Witness ==
  /\ pc = "done"
  /\ amounts = <<>>
  /\ results = <<>>
  /\ queries = <<>>

\* ---------------------------------------------------------------------- C8
\* C8: the timestamp is taken once, before the first query, and every row
\* carries it, however long the queries and the delays take.
C8_OneTimestampPerRun ==
  /\ [](\A i \in 1..Len(results) : results[i].timestamp = timestamp)
  /\ [][ /\ pc # "fold" => timestamp' = timestamp
         /\ pc = "fold" => (timestamp' = Now(clock) /\ queries' = <<>>) ]_vars

C8_Witness ==
  /\ Returned
  /\ Len(results) >= 2
  /\ \A i \in 1..Len(results) : results[i].timestamp = timestamp
  /\ Now(clock) > timestamp + TimeoutTicks \div 2

\* ---------------------------------------------------------------------- C9
ValidRange == min_amount > 0 /\ max_amount > min_amount /\ num_points >= 2

\* C9 as stated: for a valid range with count >= 2 the samples are count
\* many, strictly increasing, start at min and end at max; and so are the
\* amounts recorded in the rows and sent to the oracle.
C9_SamplesAndRowsSpanRange ==
  (ValidRange /\ Sampled) =>
    /\ Len(amounts) = num_points
    /\ IncreasingPositive
    /\ amounts[1].v = min_amount
    /\ amounts[num_points].v = max_amount
    /\ \A i \in 2..Len(results) : results[i - 1].amount < results[i].amount
    /\ \A i \in 2..Len(queries) : queries[i - 1] < queries[i]
    /\ Len(results) >= 1 => results[1].amount * Scale = min_amount
    /\ Len(queries) >= 1 => queries[1] * Scale = min_amount
    /\ Returned => /\ Len(results) = num_points
                   /\ Len(queries) = num_points
                   /\ results[num_points].amount * Scale = max_amount
                   /\ queries[num_points] * Scale = max_amount

\* C9 amended: for a valid range with count >= 2 the samples are count many,
\* strictly increasing, and start at min and end at max to within rounding;
\* the amounts recorded in the rows and sent to the oracle are the samples
\* cut to whole numbers: count many, in the same order, never decreasing.
C9_SamplesSpanRangeRowsTruncated ==
  (ValidRange /\ Sampled) =>
    /\ Len(amounts) = num_points
    /\ IncreasingPositive
    /\ Abs(amounts[1].v - min_amount) <= 1
    /\ Abs(amounts[num_points].v - max_amount) <= 1
    /\ \A i \in 1..Len(results) : TruncationOf(results[i].amount, amounts[i])
    /\ \A i \in 1..Len(queries) : TruncationOf(queries[i], amounts[i])
    /\ \A i \in 2..Len(results) : results[i - 1].amount <= results[i].amount
    /\ \A i \in 2..Len(queries) : queries[i - 1] <= queries[i]
    /\ Returned => /\ Len(results) = num_points
                   /\ Len(queries) = num_points

C9_Witness ==
  /\ Returned
  /\ ValidRange
  /\ Len(results) = 3
  /\ amounts[1].v < amounts[2].v
  /\ results[1].amount = results[2].amount
  /\ queries[1] = queries[2]

\* --------------------------------------------------------------------- C10
\* C10: a sample whose duration is absent leaves weighted_sum as it was and
\* still moves cumulative_amount to its amount; samples [10, 100] with the
\* first query failing and the second giving 5.0 give the rows
\* (t, 10, null, null) and (t, 100, 5.0, 4.5).
C10_AbsentDurationStillAdvances ==
  /\ []( ( /\ SamplesTenHundred
           /\ Len(results) = 2
           /\ IsNone(results[1].finalization_in_days)
           /\ results[2].finalization_in_days = Rat(5, 1) )
         => /\ results[1] = [timestamp |-> timestamp, amount |-> 10,
                             finalization_in_days |-> None,
                             weighted_duration |-> None]
            /\ results[2] = [timestamp |-> timestamp, amount |-> 100,
                             finalization_in_days |-> Rat(5, 1),
                             weighted_duration |-> Rat(9, 2)] )
  /\ [][ (pc = "update" /\ IsNone(finalization_in_days)) =>
           /\ weighted_sum' = weighted_sum
           /\ cumulative_amount' = amounts[idx].v
           /\ IsNone(results'[Len(results')].weighted_duration) ]_vars

C10_Witness ==
  /\ pc = "done"
  /\ SamplesTenHundred
  /\ Len(csv) = 2
  /\ IsNone(csv[1].weighted_duration)
  /\ csv[2].weighted_duration = Rat(9, 2)

\* --------------------------------------------------------------------- C11
\* the queries and the rows keep step: a query is sent only when every
\* earlier sample has its row, and a row follows before the next query
InStep ==
  /\ Len(queries) <= Len(amounts)
  /\ Len(results) <= Len(queries)
  /\ Len(queries) <= Len(results) + 1
  /\ pc \in {"loop", "returned", "done"} => Len(queries) = Len(results)
  /\ pc = "update" => Len(queries) = Len(results) + 1
  /\ Returned => Len(queries) = Len(amounts)

\* C11 as stated: the oracle is queried once per sample, in sample order,
\* with that sample's amount as the argument, and the query for sample i+1
\* never starts before the update and the row of sample i are done.
C11_SequentialQueriesWithSampleAmount ==
  /\ InStep
  /\ \A i \in 1..Len(queries) : queries[i] * Scale = amounts[i].v

\* C11 amended: the same, the argument of the query for a sample being
\* int(amount), the sample cut to a whole number.
C11_SequentialQueriesWithTruncatedAmount ==
  /\ InStep
  /\ \A i \in 1..Len(queries) : TruncationOf(queries[i], amounts[i])

C11_Witness ==
  /\ pc = "update"
  /\ Len(queries) = 3
  /\ Len(results) = 2
  /\ queries[2] * Scale < amounts[2].v
  /\ IsNone(results[1].finalization_in_days)

\* --------------------------------------------------------------------- C12
RowFields == {"timestamp", "amount", "finalization_in_days",
              "weighted_duration"}

\* a row with its four fields, the weighted duration defined exactly when
\* the duration is
CompleteRow(row) ==
  /\ DOMAIN row = RowFields
  /\ row.timestamp = timestamp
  /\ IsNone(row.weighted_duration) <=> IsNone(row.finalization_in_days)

\* C12: each iteration appends exactly one complete row and leaves the rows
\* before it as they were, so the rows at any point between two samples are
\* a prefix of the full result; the sink receives complete rows only, and
\* all of them.
C12_RowsAppendOnlyAndComplete ==
  /\ [](\A i \in 1..Len(results) : CompleteRow(results[i]))
  /\ [](csv # <<>> => (pc = "done" /\ csv = results))
  /\ [](pc = "done" => (csv = results /\ Len(csv) = Len(amounts)))
  /\ [][ \/ results' = results
         \/ /\ pc = "update"
            /\ Len(results') = Len(results) + 1
            /\ SubSeq(results', 1, Len(results)) = results ]_vars

C12_Witness ==
  /\ pc = "done"
  /\ Len(csv) = 3
  /\ IsNone(csv[2].finalization_in_days)
  /\ ~IsNone(csv[3].finalization_in_days)

\* --------------------------------------------------------------------- C13
\* a create_*_table call is running
InCreateCall == t_pc \in {"create", "forced_delete"}

\* C13: a top-level create_*_table call ends, sends at most two
\* create_table requests and at most one delete_table request, and returns
\* False, raising nothing, when the second attempt fails too.
C13_CreateRetriesAtMostOnce ==
  /\ [](CountOp(t_requests, "create") <= 2)
  /\ [](CountOp(t_requests, "delete") <= 1)
  /\ [](t_pc # "raised")
  /\ []( ( /\ ~InCreateCall
           /\ CountOp(t_requests, "create") = 2
           /\ InnerTry(t_requests[3].table, t_requests[3].outcome, FALSE)
                = "raise" )
         => t_returned[t_requests[3].table] = "False" )
  /\ InCreateCall ~> ~InCreateCall

C13_Witness ==
  /\ t_pc = "exit"
  /\ t_exit = 1
  /\ t_type = "withdrawal"
  /\ Len(t_requests) = 3
  /\ t_requests[1].outcome = "exists"
  /\ t_requests[2].op = "delete"
  /\ t_requests[2].outcome = "error"
  /\ t_requests[3].op = "create"
  /\ t_requests[3].outcome = "exists"
  /\ t_returned["withdrawal"] = "False"
  /\ t_name["withdrawal"] = 1

\* --------------------------------------------------------------------- C14
\* C14: main returns 0 only if every insert it attempted succeeded: when
\* dune.insert_table fails for a file that exists, upload_oracle_report /
\* upload_withdrawal_times returns False and main returns 1.
C14_FailedInsertIsReported ==
  /\ \A i \in 1..Len(u_inserts) :
       u_inserts[i].outcome = "insert_error" =>
         /\ u_inserts[i].table \in u_files
         /\ \E j \in 1..Len(u_returns) :
              /\ u_returns[j].table = u_inserts[i].table
              /\ u_returns[j].value = FALSE
  /\ (u_pc = "exit" /\ u_exit = 0) =>
       \A i \in 1..Len(u_inserts) : u_inserts[i].outcome = "ok"

====
